---- MODULE Spec2Model ----
(***************************************************************************)
(* Node volume-lifecycle service of the jiva CSI driver                    *)
(* (pkg/driver/node.go): NodeStageVolume, NodeUnstageVolume,               *)
(* NodePublishVolume and NodeUnpublishVolume, their per-volume transition  *)
(* guard, the readiness and reachability polls, the mount-state inspector  *)
(* and the external collaborators they drive (volume record store, iSCSI   *)
(* attacher, mount executor, directories).                                 *)
(*                                                                         *)
(* Strings are sequences of tokens so that prefix stripping and substring  *)
(* search are computed, not assumed.  Every call of an external            *)
(* collaborator is one atomic step of the calling RPC; its failure is a    *)
(* nondeterministic outcome of that step.  Mount options (bind, ro, mount  *)
(* flags) are not part of the state: no modelled operation reads them.     *)
(***************************************************************************)
EXTENDS Integers, Sequences, FiniteSets, TLC

VARIABLES
    volumeTransition,  \* node.volumeTransition: keys with an operation in flight
    calls,             \* the RPC invocations: position, request and locals
    volumes,           \* Volume Record Store: key -> JivaVolume or NoRecord
    mounts,            \* OS mount table: path -> stack of entries, newest first
    dirs,              \* directories that exist
    sessions,          \* iSCSI sessions logged in on this node (by iqn)
    MaxRetryCount      \* the package variable MaxRetryCount

vars == <<volumeTransition, calls, volumes, mounts, dirs, sessions, MaxRetryCount>>

env == <<volumes, mounts, dirs, sessions>>

----------------------------------------------------------------------------
(* Bounds *)

\* largest retry budget the configuration may set
MaxBudget == 2

\* largest number of mounts stacked on one path
MaxStack == 1

----------------------------------------------------------------------------
(* Strings *)

Empty == <<>>

NamePrefix == "pvc-"

FSTypeExt4 == <<"ext4">>

FSTypeXfs == <<"xfs">>

defaultFsType == FSTypeExt4

\* utils.StripName: the name prefix is removed from a request-supplied ID
StripName(name) ==
    IF Len(name) > 0 /\ name[1] = NamePrefix THEN Tail(name) ELSE name

\* strings.Contains
Contains(s, sub) ==
    \E i \in 0..(Len(s) - Len(sub)) : SubSeq(s, i + 1, i + Len(sub)) = sub

VolA == <<"pvc-", "a">>
VolB == <<"b">>

StagingA == <<"/staging/", "pvc-", "a">>
TargetA == <<"/pods/", "pvc-", "a">>
OtherA == <<"/mnt/", "a">>

Paths == {StagingA, TargetA, OtherA}

RecordKeys == {StripName(VolA)}

DevicePathOf(key) == <<"/dev/sd", key>>

IqnOf(key) == <<"iqn:", key>>

PortalOf(key) == <<"10.0.0.1:3260/", key>>

RootDevice == <<"rootfs">>

----------------------------------------------------------------------------
(* Volume records *)

NoRecord == [absent |-> TRUE]

NoMountInfo == [fsType |-> Empty, devicePath |-> Empty, path |-> Empty]

\* the (phase, status, replicaStatuses) values the external controller writes
StatusValues ==
    { [phase |-> "Pending", status |-> "RW", replicaStatuses |-> <<>>],
      [phase |-> "Ready", status |-> "RO", replicaStatuses |-> <<"r1">>],
      [phase |-> "Ready", status |-> "RW", replicaStatuses |-> <<"r1", "r2">>] }

ReadyStatus == CHOOSE st \in StatusValues : st.phase = "Ready" /\ st.status = "RW"

NewRecord(key, st) ==
    [absent |-> FALSE, name |-> key,
     phase |-> st.phase, status |-> st.status,
     replicaStatuses |-> st.replicaStatuses,
     iscsi |-> [portal |-> PortalOf(key), iqn |-> IqnOf(key)],
     mountInfo |-> NoMountInfo]

\* client.GetJivaVolume
GetJivaVolume(key) == IF key \in DOMAIN volumes THEN volumes[key] ELSE NoRecord

\* a readiness test that looks at the status alone
IsReadyStatusOnly(instance) == instance.status = "RW"

\* waitForVolumeToBeReady: the record is ready to serve IOs
IsReady(instance) == instance.phase = "Ready" /\ instance.status = "RW"

----------------------------------------------------------------------------
(* Mount table *)

MountedPaths == {p \in DOMAIN mounts : mounts[p] # <<>>}

IsMounted(p) == p \in DOMAIN mounts /\ mounts[p] # <<>>

\* every entry of the table, as <<path, position>>
MountEntries == {e \in (DOMAIN mounts) \X (1..(MaxStack + 1)) : e[2] <= Len(mounts[e[1]])}

\* mounter.GetDeviceName: the device mounted at the path and the number of
\* table entries that reference this device
DeviceAt(p) == IF IsMounted(p) THEN mounts[p][1].device ELSE Empty

RefCount(p) ==
    IF ~IsMounted(p) THEN 0
    ELSE Cardinality({e \in MountEntries : mounts[e[1]][e[2]].device = DeviceAt(p)})

PushMount(p, entry) == [mounts EXCEPT ![p] = <<entry>> \o @]

PopMount(p) == [mounts EXCEPT ![p] = Tail(@)]

----------------------------------------------------------------------------
(* Requests *)

NilCap == [nil |-> TRUE]

\* a csi.VolumeCapability: whether its access mode is one the driver
\* supports, its access type and the filesystem type a mount type declares
MountCap(fs) == [nil |-> FALSE, supported |-> TRUE, access |-> "mount", fsType |-> fs]

BlockCap == [nil |-> FALSE, supported |-> TRUE, access |-> "block", fsType |-> Empty]

UnsupportedCap == [nil |-> FALSE, supported |-> FALSE, access |-> "mount", fsType |-> Empty]

Req(id, path, staging, cap) ==
    [volumeId |-> id, path |-> path, staging |-> staging, cap |-> cap]

NoReq == Req(Empty, Empty, Empty, NilCap)

\* isValidVolumeCapabilities
isValidVolumeCapabilities(cap) == cap.supported

\* VolumeCapability.GetMount: nil unless the access type is mount
GetMount(cap) == IF ~cap.nil /\ cap.access = "mount" THEN cap ELSE NilCap

\* Mount.GetFsType, nil-safe
GetFsType(mount) == IF mount.nil THEN Empty ELSE mount.fsType

----------------------------------------------------------------------------
(* Calls *)

Calls == {1, 2}

Idle ==
    [pc |-> "idle", kind |-> "none", req |-> NoReq,
     volID |-> Empty, fsType |-> Empty,
     retry |-> 0, checks |-> 0, lastPoll |-> "none",
     retries |-> 0, reach |-> "none", answer |-> "none",
     instance |-> NoRecord, devicePath |-> Empty, refCount |-> 0,
     did |-> {}, code |-> "none", err |-> "none"]

\* a call that returned keeps its kind, the collaborators it called, the
\* number of readiness checks and of failed dials it made, what the
\* mount-point inspection told it and what it answered; its request and its
\* other locals are gone
Returned(call, code, err) ==
    [Idle EXCEPT !.pc = "done", !.kind = call.kind, !.did = call.did,
                 !.checks = call.checks, !.retries = call.retries,
                 !.answer = call.answer, !.code = code, !.err = err]

InFlight(c) == calls[c].pc \notin {"idle", "recv", "done"}

\* the request has been received and the handler has not started
Receive(c, kind, req) ==
    /\ calls[c].pc \in {"idle", "done"}
    /\ calls' = [calls EXCEPT ![c] = [Idle EXCEPT !.pc = "recv", !.kind = kind, !.req = req]]
    /\ UNCHANGED <<volumeTransition, env, MaxRetryCount>>

----------------------------------------------------------------------------
(* Transition guard (request.Transition) *)

\* Transition.Insert: atomic test-and-insert, reports whether it inserted
InsertOk(key) == key \notin volumeTransition

Insert(key) == volumeTransition \cup {key}

\* Transition.Delete
Delete(key) == volumeTransition \ {key}

\* a return before the deferred Delete is registered
Reject(c, code, err) ==
    /\ calls' = [calls EXCEPT ![c] = Returned(calls[c], code, err)]
    /\ UNCHANGED volumeTransition

\* a deferred Delete that runs on the successful return only
FinishOnSuccessOnly(c, call, code, err) ==
    /\ calls' = [calls EXCEPT ![c] = Returned(call, code, err)]
    /\ volumeTransition' = IF code = "OK" THEN Delete(calls[c].volID) ELSE volumeTransition

\* a deferred Delete that the returns of the two polls miss
FinishLeakingOnTimeout(c, call, code, err) ==
    /\ calls' = [calls EXCEPT ![c] = Returned(call, code, err)]
    /\ volumeTransition' =
          IF code = "FailedPrecondition" THEN volumeTransition ELSE Delete(calls[c].volID)

\* a return after it: the deferred function deletes the key the call inserted
Finish(c, call, code, err) ==
    /\ calls' = [calls EXCEPT ![c] = Returned(call, code, err)]
    /\ volumeTransition' = Delete(calls[c].volID)

\* the call goes on to its next step
Goto(c, call, pc) ==
    /\ calls' = [calls EXCEPT ![c] = [call EXCEPT !.pc = pc]]
    /\ UNCHANGED volumeTransition

Did(call, what) == [call EXCEPT !.did = @ \cup {what}]

----------------------------------------------------------------------------
(* Mount State Inspector *)

\* the paths of the mount list that contain the volume ID
currentMounts(volID) == {p \in MountedPaths : Contains(p, volID)}

\* an inspector that already objects to a single other mount
isAlreadyMountedOnce(volID, path) ==
    IF Cardinality(currentMounts(volID)) > 0
    THEN IF path \in currentMounts(volID) THEN "ok" ELSE "MultiMount"
    ELSE "ok"

\* isAlreadyMounted, given a mount list that was read: "ok" or the error
isAlreadyMounted(volID, path) ==
    IF Cardinality(currentMounts(volID)) > 1
    THEN IF path \in currentMounts(volID) THEN "ok" ELSE "MultiMount"
    ELSE "ok"

----------------------------------------------------------------------------
(* NodeStageVolume *)

\* a validation that forgets the staging path
validateStagingReqNoPath(req) ==
    IF Len(req.volumeId) = 0 THEN "Volume ID not provided"
    ELSE IF req.cap.nil THEN "Volume capability not provided"
    ELSE IF ~isValidVolumeCapabilities(req.cap) THEN "Volume capability not supported"
    ELSE IF GetMount(req.cap).nil THEN "mount is nil within volume capability"
    ELSE "ok"

\* validateStagingReq: the error message, or "ok"
validateStagingReq(req) ==
    IF Len(req.volumeId) = 0 THEN "Volume ID not provided"
    ELSE IF req.cap.nil THEN "Volume capability not provided"
    ELSE IF ~isValidVolumeCapabilities(req.cap) THEN "Volume capability not supported"
    ELSE IF GetMount(req.cap).nil THEN "mount is nil within volume capability"
    ELSE IF Len(req.path) = 0 THEN "staging path is empty"
    ELSE "ok"

\* the fsType of the nodeStageRequest that validateStagingReq returns
StagingFsType(req) ==
    IF Len(GetFsType(GetMount(req.cap))) = 0 THEN defaultFsType
    ELSE GetFsType(GetMount(req.cap))

\* validation and the guard
StageEnter(c) ==
    /\ calls[c].pc = "recv" /\ calls[c].kind = "Stage"
    /\ UNCHANGED <<env, MaxRetryCount>>
    /\ LET req == calls[c].req
           volID == StripName(req.volumeId)
       IN IF validateStagingReq(req) # "ok"
          THEN Reject(c, "InvalidArgument", validateStagingReq(req))
          ELSE IF ~InsertOk(volID)
          THEN Reject(c, "Aborted", "in progress")
          ELSE /\ volumeTransition' = Insert(volID)
               /\ calls' = [calls EXCEPT ![c] =
                    [@ EXCEPT !.pc = "poll", !.volID = volID,
                              !.fsType = StagingFsType(req)]]

\* a loop that stops one turn early
PollContinuesStrict(retry) == retry < MaxRetryCount

\* waitForVolumeToBeReady: the loop goes round again
PollContinues(retry) == retry <= MaxRetryCount

\* waitForVolumeToBeReady, one turn of the loop (doesVolumeExist strips the
\* name again); NodeStageVolume answers FailedPrecondition to any error
StagePoll(c) ==
    /\ calls[c].pc = "poll"
    /\ UNCHANGED <<env, MaxRetryCount>>
    /\ LET call == [Did(calls[c], "poll") EXCEPT !.checks = @ + 1]
           instance == GetJivaVolume(StripName(call.volID))
       IN \/ Finish(c, [call EXCEPT !.lastPoll = "error"], "FailedPrecondition", "Internal")
          \/ /\ instance.absent
             /\ Finish(c, [call EXCEPT !.lastPoll = "error"], "FailedPrecondition", "NotFound")
          \/ /\ ~instance.absent
             /\ LET polled == [call EXCEPT !.retry = @ + 1] IN
                IF IsReady(instance)
                THEN Goto(c, [polled EXCEPT !.lastPoll = "ready", !.instance = instance], "chkmnt")
                ELSE IF PollContinues(polled.retry)
                THEN Goto(c, [polled EXCEPT !.lastPoll = "notready"], "poll")
                ELSE Finish(c, [polled EXCEPT !.lastPoll = "notready"],
                            "FailedPrecondition", "Max retry count exceeded")

\* isAlreadyMounted(reqParam.volumeID, reqParam.stagingPath)
StageCheckMounted(c) ==
    /\ calls[c].pc = "chkmnt" /\ calls[c].kind = "Stage"
    /\ UNCHANGED <<env, MaxRetryCount>>
    /\ LET call == Did(calls[c], "list") IN
       \/ Finish(c, call, "Unknown", "Failed to list mount paths")
       \/ IF isAlreadyMounted(call.volID, call.req.path) = "ok"
          THEN Goto(c, call, "dial")
          ELSE Finish(c, call, "Unknown", isAlreadyMounted(call.volID, call.req.path))

\* a loop that allows one dial more
ReachExhaustedLate(retries) == retries > MaxRetryCount

\* waitForVolumeToBeReachable: the loop gives up
ReachExhausted(retries) == retries >= MaxRetryCount

\* waitForVolumeToBeReachable, one dial
StageDial(c) ==
    /\ calls[c].pc = "dial"
    /\ UNCHANGED <<env, MaxRetryCount>>
    /\ LET call == Did(calls[c], "dial") IN
       \/ Goto(c, [call EXCEPT !.reach = "ok"], "attach")
       \/ LET failed == [call EXCEPT !.retries = @ + 1, !.reach = "failed"] IN
          IF ReachExhausted(failed.retries)
          THEN Finish(c, failed, "FailedPrecondition", "iSCSI Target not reachable")
          ELSE Goto(c, failed, "dial")

\* attachDisk: iscsi.Connect fails, reports no path, or returns the device
StageAttach(c) ==
    /\ calls[c].pc = "attach"
    /\ UNCHANGED <<volumes, mounts, dirs, MaxRetryCount>>
    /\ LET call == Did(calls[c], "attach") IN
       \/ /\ Finish(c, call, "Internal", "connect failed")
          /\ UNCHANGED sessions
       \/ /\ Finish(c, call, "Internal", "connect reported success, but no path returned")
          /\ sessions' = sessions \cup {call.instance.iscsi.iqn}
       \/ /\ Goto(c, [call EXCEPT !.devicePath = DevicePathOf(call.instance.name)], "refetch")
          /\ sessions' = sessions \cup {call.instance.iscsi.iqn}

\* ns.client.GetJivaVolume after the attach; its error is returned as it is
StageRefetch(c) ==
    /\ calls[c].pc = "refetch"
    /\ UNCHANGED <<env, MaxRetryCount>>
    /\ LET call == Did(calls[c], "get")
           instance == GetJivaVolume(call.volID)
       IN \/ Finish(c, call, "Unknown", "get failed")
          \/ /\ instance.absent
             /\ Finish(c, call, "Unknown", "not found")
          \/ /\ ~instance.absent
             /\ Goto(c, [call EXCEPT !.instance = instance], "update")

\* assignments that leave out the device path
WithMountInfoNoDevice(instance, fsType, devicePath, path) ==
    [instance EXCEPT !.mountInfo =
        [fsType |-> fsType, devicePath |-> Empty, path |-> path]]

\* assignments that also clear the replica statuses
WithMountInfoAndReplicas(instance, fsType, devicePath, path) ==
    [instance EXCEPT !.replicaStatuses = <<>>,
                     !.mountInfo =
        [fsType |-> fsType, devicePath |-> devicePath, path |-> path]]

\* the three assignments to instance.Spec.MountInfo
WithMountInfo(instance, fsType, devicePath, path) ==
    [instance EXCEPT !.mountInfo =
        [fsType |-> fsType, devicePath |-> devicePath, path |-> path]]

\* an update whose failure logs the device out again
StageUpdateWithRollback(c) ==
    /\ calls[c].pc = "update"
    /\ UNCHANGED <<mounts, dirs, MaxRetryCount>>
    /\ LET call == Did(calls[c], "update")
           instance == WithMountInfo(call.instance, call.fsType,
                                     call.devicePath, call.req.path)
       IN \/ /\ Finish(c, Did(call, "disconnect"), "Internal", "update failed")
             /\ sessions' = sessions \ {call.instance.iscsi.iqn}
             /\ UNCHANGED volumes
          \/ /\ call.volID \in DOMAIN volumes /\ ~volumes[call.volID].absent
             /\ volumes' = [volumes EXCEPT ![call.volID] = instance]
             /\ UNCHANGED sessions
             /\ Goto(c, [call EXCEPT !.instance = instance], "mkdir")

\* ns.client.UpdateJivaVolume(instance): the record is overwritten
StageUpdate(c) ==
    /\ calls[c].pc = "update"
    /\ UNCHANGED <<mounts, dirs, sessions, MaxRetryCount>>
    /\ LET call == Did(calls[c], "update")
           instance == WithMountInfo(call.instance, call.fsType,
                                     call.devicePath, call.req.path)
       IN \/ /\ Finish(c, call, "Internal", "update failed")
             /\ UNCHANGED volumes
          \/ /\ call.volID \in DOMAIN volumes /\ ~volumes[call.volID].absent
             /\ volumes' = [volumes EXCEPT ![call.volID] = instance]
             /\ Goto(c, [call EXCEPT !.instance = instance], "mkdir")

\* os.MkdirAll(reqParam.stagingPath)
StageMkdir(c) ==
    /\ calls[c].pc = "mkdir" /\ calls[c].kind = "Stage"
    /\ UNCHANGED <<volumes, mounts, sessions, MaxRetryCount>>
    /\ LET call == Did(calls[c], "mkdir") IN
       \/ /\ Finish(c, call, "Internal", "mkdir failed")
          /\ UNCHANGED dirs
       \/ /\ dirs' = dirs \cup {call.req.path}
          /\ Goto(c, call, "inspect")

\* a formatAndMount that does not look at what the inspection answered
StageInspectThenMount(c) ==
    /\ calls[c].pc = "inspect" /\ calls[c].kind = "Stage"
    /\ UNCHANGED <<volumes, mounts, dirs, sessions, MaxRetryCount>>
    /\ LET call == Did(calls[c], "inspect")
           mntPath == call.req.path
       IN \E answer \in (IF mntPath \in dirs THEN {"ok"} ELSE {"notexist"}) :
            Goto(c, [call EXCEPT !.answer = answer], "mount")

\* formatAndMount up to the mount: IsLikelyNotMountPoint ("notexist",
\* "error", or "ok" with notMnt), and MkdirAll when it failed with an error
\* other than "does not exist"
StageInspect(c) ==
    /\ calls[c].pc = "inspect" /\ calls[c].kind = "Stage"
    /\ UNCHANGED <<volumes, mounts, sessions, MaxRetryCount>>
    /\ LET call == Did(calls[c], "inspect")
           mntPath == call.req.path
           failed == Did([call EXCEPT !.answer = "error"], "mkdir")
           answered == [call EXCEPT !.answer = "ok"]
       IN \/ /\ mntPath \notin dirs               \* (true, IsNotExist)
             /\ UNCHANGED dirs
             /\ Goto(c, [call EXCEPT !.answer = "notexist"], "mount")
          \/ /\ Finish(c, failed, "Internal", "mkdir failed")
             /\ UNCHANGED dirs                    \* (true, other error), MkdirAll fails
          \/ /\ dirs' = dirs \cup {mntPath}       \* (true, other error), MkdirAll
             /\ Goto(c, failed, "mount")
          \/ /\ mntPath \in dirs                  \* (notMnt, nil)
             /\ UNCHANGED dirs
             /\ IF IsMounted(mntPath)
                THEN Finish(c, answered, "OK", "none")   \* mounted already
                ELSE Goto(c, answered, "mount")

\* the fsType formatAndMount hands to the mounter
FormatFsType(call) == GetFsType(GetMount(call.req.cap))

\* ns.mounter.FormatAndMount(devicePath, mntPath, fsType, options)
StageMount(c) ==
    /\ calls[c].pc = "mount" /\ calls[c].kind = "Stage"
    /\ UNCHANGED <<volumes, dirs, sessions, MaxRetryCount>>
    /\ LET call == Did(calls[c], "mount")
           mntPath == call.req.path
       IN \/ /\ Finish(c, call, "Internal", "mount failed")
             /\ UNCHANGED mounts
          \/ /\ mntPath \in dirs
             /\ Len(mounts[mntPath]) < MaxStack
             /\ mounts' = PushMount(mntPath,
                    [device |-> call.instance.mountInfo.devicePath,
                     fsType |-> FormatFsType(call)])
             /\ Finish(c, call, "OK", "none")

----------------------------------------------------------------------------
(* NodeUnstageVolume *)

validateUnstageReq(req) ==
    IF req.volumeId = Empty THEN "NodeUnstageVolume Volume ID must be provided"
    ELSE IF Len(req.path) = 0 THEN "Staging target not provided"
    ELSE "ok"

\* the key NodeUnstageVolume hands to the transition guard
UnstageKey(req) == req.volumeId

UnstageEnter(c) ==
    /\ calls[c].pc = "recv" /\ calls[c].kind = "Unstage"
    /\ UNCHANGED <<env, MaxRetryCount>>
    /\ LET req == calls[c].req
           volID == UnstageKey(req)
       IN IF validateUnstageReq(req) # "ok"
          THEN Reject(c, "InvalidArgument", validateUnstageReq(req))
          ELSE IF ~InsertOk(volID)
          THEN Reject(c, "Aborted", "in progress")
          ELSE /\ volumeTransition' = Insert(volID)
               /\ calls' = [calls EXCEPT ![c] = [@ EXCEPT !.pc = "getdev", !.volID = volID]]

\* a test of refCount that never finds the volume unstaged
NotStagedNever(refCount) == refCount < 0

\* a test of refCount that also gives up on a device mounted more than once
NotStagedOrShared(refCount) == refCount # 1

\* the volume is not staged at the staging path
NotStaged(refCount) == refCount = 0

\* ns.mounter.GetDeviceName(target) and the two tests of refCount
UnstageGetDeviceName(c) ==
    /\ calls[c].pc = "getdev"
    /\ UNCHANGED <<env, MaxRetryCount>>
    /\ LET call == Did(calls[c], "getdev") IN
       \/ Finish(c, [call EXCEPT !.answer = "error"], "Internal",
                  "failed to check if volume is mounted")
       \/ LET counted == [call EXCEPT !.refCount = RefCount(call.req.path),
                                      !.answer = "ok"] IN
          IF NotStaged(counted.refCount)
          THEN Finish(c, counted, "OK", "none")
          ELSE Goto(c, counted, "unmount")

\* ns.mounter.Unmount(target)
UnstageUnmount(c) ==
    /\ calls[c].pc = "unmount" /\ calls[c].kind = "Unstage"
    /\ UNCHANGED <<volumes, dirs, sessions, MaxRetryCount>>
    /\ LET call == Did(calls[c], "unmount") IN
       \/ /\ Finish(c, call, "Internal", "Could not unmount target")
          /\ UNCHANGED mounts
       \/ /\ IsMounted(call.req.path)
          /\ mounts' = PopMount(call.req.path)
          /\ Goto(c, call, "fetch")

\* doesVolumeExist(volID)
UnstageFetch(c) ==
    /\ calls[c].pc = "fetch"
    /\ UNCHANGED <<env, MaxRetryCount>>
    /\ LET call == Did(calls[c], "get")
           instance == GetJivaVolume(StripName(call.volID))
       IN \/ Finish(c, call, "Internal", "get failed")
          \/ /\ instance.absent
             /\ Finish(c, call, "NotFound", "not found")
          \/ /\ ~instance.absent
             /\ Goto(c, [call EXCEPT !.instance = instance], "disconnect")

\* iscsi.Disconnect(iqn, portals)
UnstageDisconnect(c) ==
    /\ calls[c].pc = "disconnect"
    /\ UNCHANGED <<volumes, mounts, dirs, MaxRetryCount>>
    /\ LET call == Did(calls[c], "disconnect") IN
       \/ /\ Finish(c, call, "Internal", "disconnect failed")
          /\ UNCHANGED sessions
       \/ /\ sessions' = sessions \ {call.instance.iscsi.iqn}
          /\ Goto(c, call, "rmdir")

\* os.RemoveAll(instance.Spec.MountInfo.Path)
UnstageRemoveAll(c) ==
    /\ calls[c].pc = "rmdir"
    /\ UNCHANGED <<volumes, mounts, sessions, MaxRetryCount>>
    /\ LET call == Did(calls[c], "rmdir") IN
       \/ /\ Finish(c, call, "Internal", "Failed to remove mount path")
          /\ UNCHANGED dirs
       \/ /\ ~IsMounted(call.instance.mountInfo.path)
          /\ dirs' = dirs \ {call.instance.mountInfo.path}
          /\ Finish(c, call, "OK", "none")

----------------------------------------------------------------------------
(* NodePublishVolume *)

validatePublishReq(req) ==
    IF Len(req.volumeId) = 0 THEN "Volume ID not provided"
    ELSE IF Len(req.path) = 0 THEN "Target path not provided"
    ELSE IF req.cap.nil THEN "Volume capability not provided"
    ELSE IF ~isValidVolumeCapabilities(req.cap) THEN "Volume capability not supported"
    ELSE "ok"

\* the key NodePublishVolume hands to the transition guard
PublishKey(req) == req.volumeId

PublishEnter(c) ==
    /\ calls[c].pc = "recv" /\ calls[c].kind = "Publish"
    /\ UNCHANGED <<env, MaxRetryCount>>
    /\ LET req == calls[c].req
           volumeID == PublishKey(req)
       IN IF validatePublishReq(req) # "ok"
          THEN Reject(c, "InvalidArgument", validatePublishReq(req))
          ELSE IF ~InsertOk(volumeID)
          THEN Reject(c, "Aborted", "in progress")
          ELSE /\ volumeTransition' = Insert(volumeID)
               /\ calls' = [calls EXCEPT ![c] = [@ EXCEPT !.pc = "chkmnt", !.volID = volumeID]]

\* isAlreadyMounted(volumeID, target), then the switch on the access type
PublishCheckMounted(c) ==
    /\ calls[c].pc = "chkmnt" /\ calls[c].kind = "Publish"
    /\ UNCHANGED <<env, MaxRetryCount>>
    /\ LET call == Did(calls[c], "list") IN
       \/ Finish(c, call, "Unknown", "Failed to list mount paths")
       \/ IF isAlreadyMounted(call.volID, call.req.path) # "ok"
          THEN Finish(c, call, "Unknown", isAlreadyMounted(call.volID, call.req.path))
          ELSE IF call.req.cap.access = "block"
          THEN Finish(c, call, "Unimplemented", "doesn't support block device provisioning")
          ELSE Goto(c, call, "mkdir")

\* nodePublishVolumeForFileSystem: os.MkdirAll(target) and os.Chmod(target)
PublishMkdir(c) ==
    /\ calls[c].pc = "mkdir" /\ calls[c].kind = "Publish"
    /\ UNCHANGED <<volumes, mounts, sessions, MaxRetryCount>>
    /\ LET call == Did(calls[c], "mkdir") IN
       \/ /\ Finish(c, call, "Internal", "Could not create dir")
          /\ UNCHANGED dirs
       \/ /\ dirs' = dirs \cup {call.req.path}
          /\ Finish(c, call, "Internal", "Could not change mode of dir")
       \/ /\ dirs' = dirs \cup {call.req.path}
          /\ Goto(c, call, "mount")

\* the fsType nodePublishVolumeForFileSystem hands to the mounter
PublishFsType(call) ==
    IF Len(GetFsType(GetMount(call.req.cap))) = 0 THEN defaultFsType
    ELSE GetFsType(GetMount(call.req.cap))

\* the device a bind mount of the source shows in the mount table
BindDevice(source) == IF IsMounted(source) THEN DeviceAt(source) ELSE RootDevice

\* ns.mounter.Mount(source, target, fsType, mountOptions), and os.Remove(target)
\* when it fails
PublishMount(c) ==
    /\ calls[c].pc = "mount" /\ calls[c].kind = "Publish"
    /\ UNCHANGED <<volumes, sessions, MaxRetryCount>>
    /\ LET call == Did(calls[c], "mount")
           target == call.req.path
           source == call.req.staging
       IN \/ /\ UNCHANGED <<mounts, dirs>>
             /\ Finish(c, call, "Internal", "Could not remove mount target")
          \/ /\ ~IsMounted(target)
             /\ UNCHANGED mounts
             /\ dirs' = dirs \ {target}
             /\ Finish(c, Did(call, "rmdir"), "Internal", "Could not mount")
          \/ /\ target \in dirs /\ source \in dirs
             /\ Len(mounts[target]) < MaxStack
             /\ mounts' = PushMount(target,
                    [device |-> BindDevice(source),
                     fsType |-> PublishFsType(call)])
             /\ UNCHANGED dirs
             /\ Finish(c, call, "OK", "none")

----------------------------------------------------------------------------
(* NodeUnpublishVolume *)

validateUnpublishReq(req) ==
    IF Len(req.volumeId) = 0 THEN "Volume ID not provided"
    ELSE IF Len(req.path) = 0 THEN "Target path not provided"
    ELSE "ok"

\* one key for every volume of the node
UnpublishKeyOfNode(req) == <<"node">>

\* the key NodeUnpublishVolume hands to the transition guard
UnpublishKey(req) == req.volumeId

UnpublishEnter(c) ==
    /\ calls[c].pc = "recv" /\ calls[c].kind = "Unpublish"
    /\ UNCHANGED <<env, MaxRetryCount>>
    /\ LET req == calls[c].req
           volumeID == UnpublishKey(req)
       IN IF validateUnpublishReq(req) # "ok"
          THEN Reject(c, "InvalidArgument", validateUnpublishReq(req))
          ELSE IF ~InsertOk(volumeID)
          THEN Reject(c, "Aborted", "in progress")
          ELSE /\ volumeTransition' = Insert(volumeID)
               /\ calls' = [calls EXCEPT ![c] = [@ EXCEPT !.pc = "inspect", !.volID = volumeID]]

\* unmount: the target needs no unmount, given what IsLikelyNotMountPoint
\* answered ("notexist", "error", or "ok" with notMnt)
NothingToUnmount(answer, notMnt) ==
    (answer = "ok" /\ notMnt) \/ answer = "notexist"

\* unmount up to the Unmount: ns.mounter.IsLikelyNotMountPoint(target)
UnpublishInspect(c) ==
    /\ calls[c].pc = "inspect" /\ calls[c].kind = "Unpublish"
    /\ UNCHANGED <<env, MaxRetryCount>>
    /\ LET call == Did(calls[c], "inspect")
           target == call.req.path
       IN \E answer \in {"error"} \cup (IF target \in dirs THEN {"ok"} ELSE {"notexist"}) :
            IF NothingToUnmount(answer, ~IsMounted(target))
            THEN Finish(c, [call EXCEPT !.answer = answer], "OK", "none")
            ELSE Goto(c, [call EXCEPT !.answer = answer], "unmount")

\* ns.mounter.Unmount(target)
UnpublishUnmount(c) ==
    /\ calls[c].pc = "unmount" /\ calls[c].kind = "Unpublish"
    /\ UNCHANGED <<volumes, dirs, sessions, MaxRetryCount>>
    /\ LET call == Did(calls[c], "unmount") IN
       \/ /\ Finish(c, call, "Internal", "Could not unmount")
          /\ UNCHANGED mounts
       \/ /\ IsMounted(call.req.path)
          /\ mounts' = PopMount(call.req.path)
          /\ Finish(c, call, "OK", "none")

----------------------------------------------------------------------------
(* The external controller of the volume records *)

CreateVolume(key) ==
    /\ volumes[key].absent
    /\ \E st \in StatusValues : volumes' = [volumes EXCEPT ![key] = NewRecord(key, st)]
    /\ UNCHANGED <<volumeTransition, calls, mounts, dirs, sessions, MaxRetryCount>>

Reconcile(key) ==
    /\ ~volumes[key].absent
    /\ \E st \in StatusValues :
          /\ st.status # volumes[key].status \/ st.phase # volumes[key].phase
          /\ volumes' = [volumes EXCEPT ![key] =
                [@ EXCEPT !.phase = st.phase, !.status = st.status,
                          !.replicaStatuses = st.replicaStatuses]]
    /\ UNCHANGED <<volumeTransition, calls, mounts, dirs, sessions, MaxRetryCount>>

----------------------------------------------------------------------------
(* Requests the model issues *)

VolumeIds == {VolA, VolB}

\* the valid requests, then one request for each way to be invalid; the
\* staging request with a declared filesystem type is the one for OtherA
StageRequests ==
    {Req(VolA, StagingA, Empty, MountCap(Empty)),
     Req(VolA, OtherA, Empty, MountCap(FSTypeXfs))}
    \cup {Req(Empty, StagingA, Empty, MountCap(Empty)),
          Req(VolA, Empty, Empty, MountCap(Empty)),
          Req(VolA, StagingA, Empty, NilCap),
          Req(VolA, StagingA, Empty, UnsupportedCap),
          Req(VolA, StagingA, Empty, BlockCap)}

UnstageRequests ==
    {Req(VolA, StagingA, Empty, NilCap),
     Req(VolA, OtherA, Empty, NilCap)}
    \cup {Req(Empty, StagingA, Empty, NilCap), Req(VolA, Empty, Empty, NilCap)}

PublishRequests ==
    {Req(VolA, TargetA, StagingA, MountCap(Empty)),
     Req(VolA, TargetA, StagingA, BlockCap),
     Req(VolA, OtherA, StagingA, BlockCap)}
    \cup {Req(Empty, TargetA, StagingA, MountCap(Empty)),
          Req(VolA, Empty, StagingA, MountCap(Empty)),
          Req(VolA, TargetA, StagingA, NilCap),
          Req(VolA, TargetA, StagingA, UnsupportedCap)}

UnpublishRequests ==
    {Req(VolA, TargetA, Empty, NilCap)}
    \cup {Req(Empty, TargetA, Empty, NilCap), Req(VolA, Empty, Empty, NilCap)}

\* the valid requests of concurrent calls: one per RPC and volume
ConcStageRequests == {Req(v, StagingA, Empty, MountCap(Empty)) : v \in VolumeIds}

ConcUnstageRequests == {Req(v, StagingA, Empty, NilCap) : v \in VolumeIds}

ConcPublishRequests == {Req(v, TargetA, StagingA, MountCap(Empty)) : v \in VolumeIds}

ConcUnpublishRequests == {Req(v, TargetA, Empty, NilCap) : v \in VolumeIds}

ReceiveStage(c, reqs) == \E req \in reqs : Receive(c, "Stage", req)

ReceiveUnstage(c, reqs) == \E req \in reqs : Receive(c, "Unstage", req)

ReceivePublish(c, reqs) == \E req \in reqs : Receive(c, "Publish", req)

ReceiveUnpublish(c, reqs) == \E req \in reqs : Receive(c, "Unpublish", req)

----------------------------------------------------------------------------
(* Specifications *)

Init ==
    /\ volumeTransition = {}
    /\ calls = [c \in Calls |-> Idle]
    /\ volumes = [k \in RecordKeys |-> NoRecord]
    /\ mounts = [p \in Paths |-> <<>>]
    /\ dirs = {}
    /\ sessions = {}
    /\ MaxRetryCount \in 0..MaxBudget

\* the steps of the handlers
Step(c) ==
    \/ StageEnter(c)
    \/ StagePoll(c)
    \/ StageCheckMounted(c)
    \/ StageDial(c)
    \/ StageAttach(c)
    \/ StageRefetch(c)
    \/ StageUpdate(c)
    \/ StageMkdir(c)
    \/ StageInspect(c)
    \/ StageMount(c)
    \/ UnstageEnter(c)
    \/ UnstageGetDeviceName(c)
    \/ UnstageUnmount(c)
    \/ UnstageFetch(c)
    \/ UnstageDisconnect(c)
    \/ UnstageRemoveAll(c)
    \/ PublishEnter(c)
    \/ PublishCheckMounted(c)
    \/ PublishMkdir(c)
    \/ PublishMount(c)
    \/ UnpublishEnter(c)
    \/ UnpublishInspect(c)
    \/ UnpublishUnmount(c)

External ==
    \/ \E key \in RecordKeys : CreateVolume(key)
    \/ \E key \in RecordKeys : Reconcile(key)

\* one RPC at a time, next to the external controller
Next ==
    \/ ReceiveStage(1, StageRequests)
    \/ ReceiveUnstage(1, UnstageRequests)
    \/ ReceivePublish(1, PublishRequests)
    \/ ReceiveUnpublish(1, UnpublishRequests)
    \/ Step(1)
    \/ External

Spec == Init /\ [][Next]_vars

\* the steps of NodeStageVolume
StageStep(c) ==
    \/ StageEnter(c)
    \/ StagePoll(c)
    \/ StageCheckMounted(c)
    \/ StageDial(c)
    \/ StageAttach(c)
    \/ StageRefetch(c)
    \/ StageUpdate(c)
    \/ StageMkdir(c)
    \/ StageInspect(c)
    \/ StageMount(c)

\* NodeStageVolume calls, one at a time, next to the external controller
NextStage ==
    \/ ReceiveStage(1, StageRequests)
    \/ StageStep(1)
    \/ External

\* the goroutine that serves an RPC keeps running: every collaborator call
\* and every sleep of the handler returns, so the handler takes its next
\* step
SpecStageFair == Init /\ [][NextStage]_vars /\ WF_vars(StageStep(1))

\* RPCs served concurrently, for a volume whose record is ready
InitConc ==
    /\ volumeTransition = {}
    /\ calls = [c \in Calls |-> Idle]
    /\ volumes = [k \in RecordKeys |-> NewRecord(k, ReadyStatus)]
    /\ mounts = [p \in Paths |-> <<>>]
    /\ dirs = {}
    /\ sessions = {}
    /\ MaxRetryCount = 0

NextConc ==
    \E c \in Calls :
        \/ ReceiveStage(c, ConcStageRequests)
        \/ ReceiveUnstage(c, ConcUnstageRequests)
        \/ ReceivePublish(c, ConcPublishRequests)
        \/ ReceiveUnpublish(c, ConcUnpublishRequests)
        \/ Step(c)

SpecConc == InitConc /\ [][NextConc]_vars

----------------------------------------------------------------------------
(* Transition guard: claims *)

Mutating == {"Stage", "Unstage", "Publish", "Unpublish"}

\* C1: two mutating calls that carry the same VolumeID are never both past
\* the transition guard.
C1_OneCallPerVolumeID ==
    \A c1, c2 \in Calls :
        (c1 # c2 /\ InFlight(c1) /\ InFlight(c2))
            => calls[c1].req.volumeId # calls[c2].req.volumeId

\* C2: every mutating RPC holds the guard under the normalized VolumeID, so a
\* NodeStageVolume call and a call of another RPC for the same request ID,
\* whose normalized form differs from the raw one, are never both past the
\* guard.
C2_GuardKeyIsNormalized ==
    \A c1, c2 \in Calls :
        (/\ InFlight(c1) /\ calls[c1].kind = "Stage"
         /\ StripName(calls[c1].req.volumeId) # calls[c1].req.volumeId
         /\ calls[c2].kind \in Mutating \ {"Stage"}
         /\ calls[c2].req.volumeId = calls[c1].req.volumeId)
            => ~InFlight(c2)

\* C3: the guard holds exactly the keys of the calls that are past it: a call
\* that returned, on whatever path, has had its key removed, and the set is
\* empty when no call is in flight.
C3_GuardReleasedOnReturn ==
    volumeTransition = {calls[c].volID : c \in {d \in Calls : InFlight(d)}}

\* a call got past the guard, failed with the multi-mount error, and the
\* guard is empty again
C3_Witness ==
    /\ calls[1].pc = "done" /\ calls[1].err = "MultiMount" /\ "list" \in calls[1].did
    /\ volumeTransition = {}

----------------------------------------------------------------------------
(* Stage sequence: claims *)

\* the call takes a step
Steps(c) == calls'[c] # calls[c]

\* the call calls this collaborator in the step
Calling(c, what) == what \in calls'[c].did /\ what \notin calls[c].did

\* C4: iscsi.Connect is called only by a NodeStageVolume call whose readiness
\* poll returned a record seen with phase Ready and status RW and whose last
\* dial succeeded, after the mount list was accepted; iSCSI sessions appear
\* in no other step.
C4_AttachOnlyWhenReadyAndReachable ==
    [][/\ \A c \in Calls :
            Calling(c, "attach") =>
                /\ calls[c].kind = "Stage"
                /\ calls[c].lastPoll = "ready"
                /\ calls[c].instance.phase = "Ready"
                /\ calls[c].instance.status = "RW"
                /\ calls[c].reach = "ok"
                /\ {"poll", "list", "dial"} \subseteq calls[c].did
       /\ ~(sessions' \subseteq sessions) => \E c \in Calls : Calling(c, "attach")]_vars

\* the device has been attached by a call that goes on to record it
C4_Witness ==
    /\ calls[1].pc = "refetch" /\ "attach" \in calls[1].did
    /\ sessions # {}

\* C5: with retry budget N = MaxRetryCount and a record that every check
\* fetches and finds not ready, the readiness poll goes on while it has made
\* at most N checks and ends at check N+1, where NodeStageVolume returns
\* FailedPrecondition.  (The delay between checks is not modelled.)
C5_ReadinessPollBound ==
    [][\A c \in Calls :
        (calls[c].pc = "poll" /\ Steps(c)) =>
            LET record == GetJivaVolume(StripName(calls[c].volID))
                fetched == /\ ~record.absent
                           /\ ~(calls'[c].pc = "done" /\ calls'[c].err = "Internal")
            IN /\ calls[c].checks <= MaxRetryCount
               /\ (fetched /\ ~(record.phase = "Ready" /\ record.status = "RW")) =>
                    IF calls[c].checks + 1 <= MaxRetryCount
                    THEN calls'[c].pc = "poll" /\ calls'[c].checks = calls[c].checks + 1
                    ELSE /\ calls[c].checks + 1 = MaxRetryCount + 1
                         /\ calls'[c].pc = "done"
                         /\ calls'[c].code = "FailedPrecondition"
                         /\ calls'[c].err = "Max retry count exceeded"]_vars

\* a poll with a budget of at least one retry ran out
C5_Witness ==
    /\ MaxRetryCount >= 1
    /\ calls[1].pc = "done" /\ calls[1].kind = "Stage"
    /\ calls[1].err = "Max retry count exceeded"

----------------------------------------------------------------------------
(* Teardown: claims *)

\* C6: NodeUnstageVolume that finds reference count zero at the staging path,
\* and NodeUnpublishVolume that finds the target missing or not a mount
\* point, return success, call neither Unmount nor iscsi.Disconnect and
\* change nothing.
C6_TeardownIdempotent ==
    [][\A c \in Calls :
        /\ (/\ calls[c].pc = "getdev" /\ Steps(c)
            /\ calls'[c].answer = "ok"
            /\ RefCount(calls[c].req.path) = 0)
              => /\ calls'[c].pc = "done" /\ calls'[c].code = "OK"
                 /\ calls'[c].did \cap {"unmount", "get", "disconnect", "rmdir"} = {}
                 /\ env' = env
        /\ (/\ calls[c].pc = "inspect" /\ calls[c].kind = "Unpublish" /\ Steps(c)
            /\ \/ calls'[c].answer = "notexist"
               \/ calls'[c].answer = "ok" /\ ~IsMounted(calls[c].req.path))
              => /\ calls'[c].pc = "done" /\ calls'[c].code = "OK"
                 /\ "unmount" \notin calls'[c].did
                 /\ env' = env]_vars

\* the volume was staged and unstaged, and a further NodeUnstageVolume
\* returned success after the reference count alone
C6_Witness ==
    /\ calls[1].pc = "done" /\ calls[1].kind = "Unstage"
    /\ calls[1].code = "OK" /\ calls[1].did = {"getdev"}
    /\ ~volumes[StripName(VolA)].absent
    /\ volumes[StripName(VolA)].mountInfo.path = StagingA
    /\ ~IsMounted(StagingA) /\ StagingA \notin dirs /\ sessions = {}

----------------------------------------------------------------------------
(* Requests: claims *)

\* C7: a NodeStageVolume or NodePublishVolume request that declares no
\* filesystem type has "ext4" written to the record's mountInfo and handed to
\* the mounter as the fsType of its mount.
C7_DefaultFsTypeUsed ==
    [][\A c \in Calls :
        (/\ calls[c].kind \in {"Stage", "Publish"}
         /\ calls[c].pc \in {"update", "mount"}
         /\ calls[c].req.cap.fsType = <<>>)
          => /\ (Calling(c, "update") /\ volumes' # volumes) =>
                    volumes'[calls[c].volID].mountInfo.fsType = <<"ext4">>
             /\ (Calling(c, "mount") /\ mounts' # mounts) =>
                    mounts'[calls[c].req.path][1].fsType = <<"ext4">>]_vars

\* the request is one that validation has to refuse: no volume ID, no path,
\* and for Stage and Publish no capability or an unsupported one, and for
\* Stage no mount capability
InvalidRequest(kind, req) ==
    \/ req.volumeId = <<>>
    \/ req.path = <<>>
    \/ kind \in {"Stage", "Publish"} /\ req.cap.nil
    \/ kind \in {"Stage", "Publish"} /\ ~req.cap.supported
    \/ kind = "Stage" /\ req.cap.access # "mount"

\* C8: a request that fails validation is answered InvalidArgument with the
\* transition set, the records, the mount table, the directories and the
\* sessions unchanged, and no collaborator called.
C8_ValidationBeforeEffects ==
    [][\A c \in Calls :
        (/\ calls[c].pc = "recv" /\ Steps(c)
         /\ InvalidRequest(calls[c].kind, calls[c].req))
          => /\ calls'[c].pc = "done"
             /\ calls'[c].code = "InvalidArgument"
             /\ calls'[c].did = {}
             /\ volumeTransition' = volumeTransition
             /\ env' = env]_vars

\* NodeStageVolume refused a request without a staging path
C8_Witness ==
    /\ calls[1].pc = "done" /\ calls[1].kind = "Stage"
    /\ calls[1].code = "InvalidArgument"
    /\ calls[1].err = "staging path is empty"

----------------------------------------------------------------------------
(* Mount State Inspector: claims *)

\* the mounted paths that contain the ID, by the definition of a substring
MountsContaining(id) ==
    {p \in Paths : /\ mounts[p] # <<>>
                   /\ \E pre, post \in {SubSeq(p, i, j) : i \in 1..(Len(p) + 1), j \in 0..Len(p)} :
                         p = pre \o id \o post}

\* C9: with M the mounted paths that contain the volume ID and p the path of
\* the request, a mount list that was read is accepted when |M| <= 1 or p is
\* in M, and otherwise NodeStageVolume and NodePublishVolume return the
\* multi-mount error without attach, record write, mkdir or mount.
C9_MultiMountDetection ==
    [][\A c \in Calls :
        (/\ calls[c].pc = "chkmnt" /\ Steps(c)
         /\ ~(calls'[c].pc = "done" /\ calls'[c].err = "Failed to list mount paths"))
          => LET M == MountsContaining(calls[c].volID)
                 p == calls[c].req.path
             IN IF Cardinality(M) <= 1 \/ p \in M
                THEN ~(calls'[c].pc = "done" /\ calls'[c].err = "MultiMount")
                ELSE /\ calls'[c].pc = "done" /\ calls'[c].err = "MultiMount"
                     /\ calls'[c].did \cap {"attach", "get", "update", "mkdir", "mount"} = {}
                     /\ env' = env]_vars

\* NodeStageVolume returned the multi-mount error
C9_Witness ==
    /\ calls[1].pc = "done" /\ calls[1].kind = "Stage"
    /\ calls[1].err = "MultiMount"
    /\ Cardinality(MountsContaining(StripName(VolA))) > 1

\* C10: NodePublishVolume with a block capability returns Unimplemented
\* whatever the mount table holds.
C10_BlockIsUnimplemented ==
    [][\A c \in Calls :
        (/\ calls[c].pc = "chkmnt" /\ calls[c].kind = "Publish" /\ Steps(c)
         /\ calls[c].req.cap.access = "block"
         /\ ~(calls'[c].pc = "done" /\ calls'[c].err = "Failed to list mount paths"))
          => /\ calls'[c].pc = "done"
             /\ calls'[c].code = "Unimplemented"]_vars

----------------------------------------------------------------------------
(* Stage end to end: claims *)

\* the ways a collaborator fails NodeStageVolume after the attach
FailuresAfterAttach ==
    {"get failed", "not found", "update failed", "mkdir failed", "mount failed"}

\* C11: a NodeStageVolume call that saw the record Ready/RW at its second
\* readiness check, reached the endpoint with its first dial and got a
\* device path d from the attach, and that no collaborator fails afterwards,
\* returns success; then the record's mountInfo holds the resolved
\* filesystem type, d and the staging path of the request, the staging path
\* is mounted with device d, and the key of the call is out of the guard.
C11_StageEndToEnd ==
    [][\A c \in Calls :
        (/\ calls[c].kind = "Stage" /\ Steps(c) /\ calls'[c].pc = "done"
         /\ calls[c].checks = 2 /\ calls[c].lastPoll = "ready"
         /\ calls[c].retries = 0 /\ calls[c].reach = "ok"
         /\ calls[c].devicePath # <<>>
         /\ calls'[c].err \notin FailuresAfterAttach)
          => LET req == calls[c].req
                 key == StripName(req.volumeId)
                 resolved == IF req.cap.fsType = <<>> THEN <<"ext4">> ELSE req.cap.fsType
             IN /\ calls'[c].code = "OK"
                /\ ~volumes'[key].absent
                /\ volumes'[key].mountInfo =
                      [fsType |-> resolved, devicePath |-> calls[c].devicePath,
                       path |-> req.path]
                /\ mounts'[req.path] # <<>>
                /\ mounts'[req.path][1].device = calls[c].devicePath
                /\ key \notin volumeTransition']_vars

\* the call found the record ready at its second check, dialled once,
\* mounted the staging path and returned success
C11_Witness ==
    /\ MaxRetryCount >= 1
    /\ calls[1].pc = "done" /\ calls[1].kind = "Stage" /\ calls[1].code = "OK"
    /\ calls[1].checks = 2 /\ calls[1].retries = 0
    /\ {"attach", "update", "mkdir", "mount"} \subseteq calls[1].did
    /\ volumes[StripName(VolA)].mountInfo =
          [fsType |-> FSTypeExt4, devicePath |-> DevicePathOf(StripName(VolA)),
           path |-> StagingA]
    /\ DeviceAt(StagingA) = DevicePathOf(StripName(VolA))
    /\ volumeTransition = {}

----------------------------------------------------------------------------
(* Error codes: claims *)

\* C12: a readiness check of NodeStageVolume or the record fetch of
\* NodeUnstageVolume that reaches the store and finds no record for the
\* volume ends the call with the code NotFound.
C12_AbsentRecordIsNotFound ==
    [][\A c \in Calls :
        (/\ calls[c].pc \in {"poll", "fetch"} /\ Steps(c)
         /\ GetJivaVolume(StripName(calls[c].volID)).absent
         /\ ~(calls'[c].pc = "done" /\ calls'[c].err \in {"Internal", "get failed"}))
          => /\ calls'[c].pc = "done"
             /\ calls'[c].code = "NotFound"]_vars

\* C13: a NodeStageVolume call that attached the device and then fails in
\* the re-fetch of the record or in the update of the record returns the
\* code Internal.
C13_RecordFailureAfterAttachIsInternal ==
    [][\A c \in Calls :
        (/\ calls[c].kind = "Stage" /\ calls[c].pc \in {"refetch", "update"}
         /\ "attach" \in calls[c].did /\ calls[c].devicePath # <<>>
         /\ Steps(c) /\ calls'[c].pc = "done")
          => calls'[c].code = "Internal"]_vars

----------------------------------------------------------------------------
(* Transition guard, different volumes: claims *)

\* the keys the step puts into the guard or takes out of it
KeysChanged ==
    (volumeTransition' \ volumeTransition) \cup (volumeTransition \ volumeTransition')

\* C14: a call is answered Aborted only while another call for the same
\* volume (the same normalized VolumeID) is past the guard, and the keys a
\* step of a call inserts or removes are keys of that call's own volume.
C14_DifferentVolumesIndependent ==
    [][\A c \in Calls :
        Steps(c) =>
            /\ (calls[c].pc = "recv" /\ calls'[c].code = "Aborted") =>
                  \E c2 \in Calls \ {c} :
                      /\ InFlight(c2)
                      /\ StripName(calls[c2].req.volumeId) = StripName(calls[c].req.volumeId)
            /\ calls[c].pc # "idle" /\ calls[c].pc # "done" =>
                  \A k \in KeysChanged : StripName(k) = StripName(calls[c].req.volumeId)]_vars

\* calls for two different volumes are past the guard together
C14_Witness ==
    /\ InFlight(1) /\ InFlight(2)
    /\ calls[1].req.volumeId = VolA /\ calls[2].req.volumeId = VolB
    /\ calls[1].kind = "Unpublish" /\ calls[2].kind = "Unpublish"
    /\ volumeTransition = {VolA, VolB}

----------------------------------------------------------------------------
(* Record writes of NodeStageVolume: claims *)

\* the record apart from its mountInfo
StatusFields(record) ==
    IF record.absent THEN <<>>
    ELSE <<record.name, record.phase, record.status,
           record.replicaStatuses, record.iscsi>>

\* C15 as stated: a step of a NodeStageVolume call leaves phase, status,
\* replicaStatuses and endpoint of every record as the store holds them (as
\* the external controller wrote them last), and it changes a mountInfo only
\* after its attach returned a device path.
C15_StageWritesOnlyMountInfo ==
    [][\A c \in Calls :
        (calls[c].kind = "Stage" /\ Steps(c)) =>
            /\ \A k \in DOMAIN volumes : StatusFields(volumes'[k]) = StatusFields(volumes[k])
            /\ volumes' # volumes =>
                  "attach" \in calls[c].did /\ calls[c].devicePath # <<>>]_vars

\* C15, amended: a step of a NodeStageVolume call changes a record only in
\* the update after its attach returned a device path, and only the record
\* of its volume; the update writes the record the call re-fetched after the
\* attach with mountInfo replaced, so phase, status, replicaStatuses and
\* endpoint afterwards are those of the re-fetch, and a write of the
\* external controller between re-fetch and update is overwritten.
C15_StageWritesRefetchedRecord ==
    [][\A c \in Calls :
        (calls[c].kind = "Stage" /\ Steps(c) /\ volumes' # volumes) =>
            LET key == StripName(calls[c].req.volumeId) IN
            /\ calls[c].pc = "update"
            /\ {"attach", "get"} \subseteq calls[c].did /\ calls[c].devicePath # <<>>
            /\ \A k \in DOMAIN volumes \ {key} : volumes'[k] = volumes[k]
            /\ StatusFields(volumes'[key]) = StatusFields(calls[c].instance)
            /\ volumes'[key].mountInfo.path = calls[c].req.path]_vars

\* the controller took the record back to Pending after the readiness poll
\* of a call, and the call has written its mountInfo to that record
C15_Witness ==
    /\ calls[1].pc = "mkdir" /\ calls[1].kind = "Stage"
    /\ "update" \in calls[1].did
    /\ volumes[StripName(VolA)].phase = "Pending"
    /\ volumes[StripName(VolA)].mountInfo.devicePath = calls[1].devicePath
    /\ calls[1].devicePath # <<>>

----------------------------------------------------------------------------
(* Termination: claims *)

\* C16: under fair scheduling of the handler, every NodeStageVolume call
\* that got past the guard returns, whatever the record and the endpoint do,
\* and when it has returned its key is out of the guard, so that a later
\* call for the volume can insert it.
C16_StageTerminates ==
    \A k \in RecordKeys :
        (calls[1].kind = "Stage" /\ InFlight(1) /\ calls[1].volID = k)
            ~> (calls[1].pc = "done" /\ InsertOk(k))

\* a call used its whole budget of readiness checks, then its whole budget
\* of dials, returned, and the guard is empty
C16_Witness ==
    /\ MaxRetryCount >= 1
    /\ calls[1].pc = "done" /\ calls[1].kind = "Stage"
    /\ calls[1].checks = MaxRetryCount + 1
    /\ calls[1].retries = MaxRetryCount
    /\ calls[1].code = "FailedPrecondition"
    /\ calls[1].err = "iSCSI Target not reachable"
    /\ InsertOk(StripName(VolA))

----------------------------------------------------------------------------
(* Reachability poll: claims *)

\* the number of dials the reachability poll may make
DialBudget == IF MaxRetryCount > 1 THEN MaxRetryCount ELSE 1

\* C17: the reachability poll makes at most max(1, MaxRetryCount) dials.  A
\* dial that fails is followed by another one only while that number is not
\* reached; the failed dial that reaches it ends NodeStageVolume with
\* FailedPrecondition, with no attach, no record fetch or write, no mkdir
\* and no mount made and nothing changed.  A dial that succeeds ends the
\* poll: the call goes on to the attach without dialling again.
C17_ReachabilityPollBound ==
    [][\A c \in Calls :
        (calls[c].pc = "dial" /\ Steps(c)) =>
            LET dials == calls[c].retries + 1 IN
            /\ dials <= DialBudget
            /\ calls'[c].pc \in {"dial", "attach", "done"}
            /\ calls'[c].pc = "dial" =>
                  /\ dials < DialBudget
                  /\ calls'[c].retries = dials /\ calls'[c].reach = "failed"
            /\ calls'[c].pc = "done" =>
                  /\ dials = DialBudget
                  /\ calls'[c].code = "FailedPrecondition"
                  /\ calls'[c].err = "iSCSI Target not reachable"
                  /\ calls'[c].did \cap {"attach", "get", "update", "mkdir", "mount"} = {}
                  /\ env' = env
            /\ calls'[c].pc = "attach" =>
                  /\ calls'[c].reach = "ok"
                  /\ calls'[c].retries = calls[c].retries
                  /\ env' = env]_vars

\* with a budget of two, two dials failed and the call returned
\* FailedPrecondition before any attach
C17_Witness ==
    /\ MaxRetryCount = 2
    /\ calls[1].pc = "done" /\ calls[1].kind = "Stage"
    /\ calls[1].retries = 2
    /\ calls[1].code = "FailedPrecondition"
    /\ calls[1].err = "iSCSI Target not reachable"
    /\ calls[1].did = {"poll", "list", "dial"}
    /\ sessions = {}

----------------------------------------------------------------------------
(* Unstage sequence: claims *)

\* C18: NodeUnstageVolume calls Unmount, then fetches the record, then calls
\* iscsi.Disconnect, then removes the directory, each in a call that made
\* the steps before it and went on after them; iSCSI sessions are closed
\* only by a Disconnect made after the unmount of the staging path and the
\* fetch of the record in the same call.  A failing Unmount returns Internal
\* with no fetch, no Disconnect, no removal and nothing changed, and an
\* Unmount the call goes on after has taken the mount off the staging path.
\* A reference count above zero, above one included, takes the call to the
\* Unmount.
C18_UnstageOrder ==
    [][/\ \A c \in Calls :
            (calls[c].kind = "Unstage" /\ Steps(c)) =>
              /\ Calling(c, "unmount") =>
                    calls[c].did = {"getdev"}
              /\ Calling(c, "get") =>
                    calls[c].did = {"getdev", "unmount"}
              /\ Calling(c, "disconnect") =>
                    /\ calls[c].did = {"getdev", "unmount", "get"}
                    /\ ~calls[c].instance.absent
              /\ Calling(c, "rmdir") =>
                    calls[c].did = {"getdev", "unmount", "get", "disconnect"}
              /\ calls[c].pc = "unmount" =>
                    IF calls'[c].pc = "done"
                    THEN /\ calls'[c].code = "Internal"
                         /\ calls'[c].did = {"getdev", "unmount"}
                         /\ env' = env
                    ELSE /\ Len(mounts'[calls[c].req.path]) = Len(mounts[calls[c].req.path]) - 1
                         /\ ~Calling(c, "get") /\ ~Calling(c, "disconnect")
              /\ (calls[c].pc = "getdev" /\ calls'[c].answer = "ok"
                     /\ RefCount(calls[c].req.path) >= 1) =>
                    calls'[c].pc = "unmount"
       /\ ~(sessions \subseteq sessions') =>
            \E c \in Calls : calls[c].kind = "Unstage" /\ Calling(c, "disconnect")]_vars

\* the staging path was unstaged, through all four steps, while a bind
\* mount of the same device was still in the mount table
C18_Witness ==
    /\ calls[1].pc = "done" /\ calls[1].kind = "Unstage" /\ calls[1].code = "OK"
    /\ calls[1].did = {"getdev", "unmount", "get", "disconnect", "rmdir"}
    /\ ~IsMounted(StagingA) /\ StagingA \notin dirs
    /\ DeviceAt(TargetA) = DevicePathOf(StripName(VolA))
    /\ sessions = {}

----------------------------------------------------------------------------
(* Partial failure of NodeStageVolume: claims *)

\* C19: a NodeStageVolume call whose attach returned a device path and
\* whose update of the record fails returns Internal; it has called no
\* Disconnect, no MkdirAll and no mount, the record, the directories and the
\* mount table are as they were, the session of the volume stays logged in,
\* and the key of the call is out of the guard.
C19_UpdateFailureNotRolledBack ==
    [][\A c \in Calls :
        (/\ calls[c].kind = "Stage" /\ calls[c].pc = "update"
         /\ "attach" \in calls[c].did /\ calls[c].devicePath # <<>>
         /\ Steps(c) /\ calls'[c].pc = "done")
          => /\ calls'[c].code = "Internal"
             /\ calls'[c].did \cap {"disconnect", "mkdir", "inspect", "mount"} = {}
             /\ volumes' = volumes /\ dirs' = dirs /\ mounts' = mounts
             /\ sessions' = sessions
             /\ IqnOf(StripName(calls[c].req.volumeId)) \in sessions'
             /\ StripName(calls[c].req.volumeId) \notin volumeTransition']_vars

\* the update failed after the attach: the device is logged in, the record
\* holds no mountInfo, no staging directory exists and the guard is empty
C19_Witness ==
    /\ calls[1].pc = "done" /\ calls[1].kind = "Stage"
    /\ calls[1].code = "Internal" /\ calls[1].err = "update failed"
    /\ IqnOf(StripName(VolA)) \in sessions
    /\ volumes[StripName(VolA)].mountInfo = NoMountInfo
    /\ dirs = {} /\ MountedPaths = {}
    /\ volumeTransition = {}

----------------------------------------------------------------------------
(* Re-staging: claims *)

\* C20: when the mount-point inspection of formatAndMount reports the
\* staging path a mount point, NodeStageVolume returns success without a
\* call of FormatAndMount; and as no step of NodeStageVolume but the call of
\* FormatAndMount changes the mount table, that call leaves the mount table
\* as it found it.
C20_RestageIsMountNoOp ==
    [][\A c \in Calls :
        (calls[c].kind = "Stage" /\ Steps(c)) =>
            /\ (/\ calls[c].pc = "inspect"
                /\ calls'[c].answer = "ok"
                /\ mounts[calls[c].req.path] # <<>>)
                  => /\ calls'[c].pc = "done" /\ calls'[c].code = "OK"
                     /\ "mount" \notin calls'[c].did
                     /\ env' = env
            /\ ~Calling(c, "mount") => mounts' = mounts]_vars

\* a second NodeStageVolume call for the staged volume went up to the
\* inspection and returned success without a mount; the staging path is
\* mounted as the first call left it
C20_Witness ==
    /\ calls[1].pc = "done" /\ calls[1].kind = "Stage" /\ calls[1].code = "OK"
    /\ calls[1].answer = "ok"
    /\ {"attach", "update", "mkdir", "inspect"} \subseteq calls[1].did
    /\ "mount" \notin calls[1].did
    /\ Len(mounts[StagingA]) = 1
    /\ mounts[StagingA][1].device = DevicePathOf(StripName(VolA))

----------------------------------------------------------------------------
(* Detach on unstage: claims *)

\* C21: whenever a NodeUnstageVolume call returns success, no iSCSI session
\* of its volume is logged in on the node, whatever Stage and Unstage calls
\* came before it.
C21_UnstageSuccessMeansDetached ==
    [][\A c \in Calls :
        (/\ calls[c].kind = "Unstage" /\ InFlight(c) /\ Steps(c)
         /\ calls'[c].pc = "done" /\ calls'[c].code = "OK")
          => IqnOf(StripName(calls[c].req.volumeId)) \notin sessions']_vars

----------------------------------------------------------------------------
(* Rejected calls and the guard: claims *)

\* a step that answers Aborted leaves the guard as it is, and a call for
\* the same volume is past the guard with its key in the set
AbortedKeepsGuard(c) ==
    (calls[c].pc = "recv" /\ Steps(c) /\ calls'[c].code = "Aborted") =>
        /\ volumeTransition' = volumeTransition
        /\ \E h \in Calls \ {c} :
              /\ InFlight(h) /\ calls'[h] = calls[h]
              /\ StripName(calls[h].req.volumeId) = StripName(calls[c].req.volumeId)
              /\ calls[h].volID \in volumeTransition'

\* the key of a call stays in the set while the call is past the guard,
\* whatever the other calls do
HolderKeepsEntry(h) ==
    (InFlight(h) /\ calls'[h].pc \notin {"idle", "recv", "done"}) =>
        calls'[h].volID = calls[h].volID /\ calls'[h].volID \in volumeTransition'

\* a call with a valid request that enters while another call for the same
\* VolumeID is past the guard is answered Aborted
ContenderRejected(c) ==
    (/\ calls[c].pc = "recv" /\ Steps(c)
     /\ ~InvalidRequest(calls[c].kind, calls[c].req)
     /\ \E h \in Calls \ {c} :
           InFlight(h) /\ calls[h].req.volumeId = calls[c].req.volumeId)
      => calls'[c].pc = "done" /\ calls'[c].code = "Aborted"

\* C22: a call answered Aborted does not take the entry of the call in
\* flight for the same volume out of the guard; the entry stays from the
\* holder's Insert until the holder returns, and every further call for that
\* volume that arrives while the holder runs is answered Aborted too.
C22_AbortedKeepsHolderEntry ==
    [][\A c \in Calls :
        /\ AbortedKeepsGuard(c)
        /\ HolderKeepsEntry(c)
        /\ ContenderRejected(c)]_vars

====
